---- MODULE Spec2Model ----
(***************************************************************************)
(* A model of the LSM tree of crates/lsm/src/lib.rs: a memtable            *)
(* (BTreeMap), a vector of optional levels, the flush of the memtable      *)
(* into level 0, the cascading merge into deeper levels, the two-way       *)
(* sorted merge, and the lookup.                                           *)
(*                                                                         *)
(* Representation.  A key is a one-byte Vec<u8>, written as its byte, so   *)
(* the Ord of Vec<u8> is the order of the integers.  Option<X> is a        *)
(* sequence of length at most one: None is <<>>, Some(x) is <<x>>.  An      *)
(* entry (key, value) is the pair <<key, value>>.  Rust indexes from 0,    *)
(* TLA+ sequences from 1: level number `level` of the code is the element *)
(* levels[level + 1], and the merge indices i, j are shifted by one.       *)
(*                                                                         *)
(* The tree never inspects a value: it moves and clones it.  The callers   *)
(* of the model therefore write, in call number n, either the tombstone or *)
(* the value n, so that every stale answer differs from the fresh one.     *)
(***************************************************************************)
EXTENDS Integers, Sequences, FiniteSets, TLC

\* ---------------------------------------------------------------- bounds
NumKeys == 4
MaxWrites == 4
MaxThreshold == 2

Keys == 1..NumKeys

None == <<>>
Some(x) == <<x>>

VARIABLES
    memtable,                  \* LSMTree.memtable: key -> Option<value>
    levels,                    \* LSMTree.levels: sequence of Option<LSMLevel>
    memtable_flush_threshold,  \* LSMTree.memtable_flush_threshold
    writes,                    \* history: the calls made so far, <<key, value>>
    old_data, new_data,        \* the arguments of a direct call of merge_sorted
    merged                     \* Option<result> of that call

vars == <<memtable, levels, memtable_flush_threshold, writes,
          old_data, new_data, merged>>

\* ------------------------------------------------------------ BTreeMap
\* Vec<u8>::cmp on one-byte keys
cmp(a, b) == IF a < b THEN "Less" ELSE IF a > b THEN "Greater" ELSE "Equal"

BTreeMapNew == [k \in {} |-> None]

\* BTreeMap::insert: upsert
BTreeMapInsert(m, key, value) ==
    [k \in DOMAIN m \cup {key} |-> IF k = key THEN value ELSE m[k]]

BTreeMapLen(m) == Cardinality(DOMAIN m)

\* the greatest key: the iteration runs in descending order
MinKey_Greatest(S) == CHOOSE k \in S : \A o \in S : cmp(k, o) # "Less"

MinKey(S) == CHOOSE k \in S : \A o \in S : cmp(k, o) # "Greater"

\* BTreeMap::into_iter: the entries in ascending key order
RECURSIVE BTreeMapIterFrom(_, _)
BTreeMapIterFrom(m, S) ==
    IF S = {} THEN <<>>
    ELSE LET k == MinKey(S)
         IN <<(<<k, m[k]>>)>> \o BTreeMapIterFrom(m, S \ {k})

BTreeMapIter(m) == BTreeMapIterFrom(m, DOMAIN m)

\* -------------------------------------------------------------- LSMTree
LSMLevel(data) == [data |-> data]

new(threshold) ==
    [memtable |-> BTreeMapNew, levels |-> <<>>,
     memtable_flush_threshold |-> threshold]

\* a capacity that does not grow with the level
level_capacity_Flat(threshold, level) == threshold

\* threshold << (level + 1)
level_capacity_OffByOne(threshold, level) == threshold * (2 ^ (level + 1))

\* threshold << level
level_capacity(threshold, level) == threshold * (2 ^ level)

\* on equal keys the old entry is pushed
MergeArm_KeepOld(old, new_, i, j) ==
    CASE cmp(old[i][1], new_[j][1]) = "Less" ->
            [push |-> old[i], i |-> i + 1, j |-> j]
      [] cmp(old[i][1], new_[j][1]) = "Greater" ->
            [push |-> new_[j], i |-> i, j |-> j + 1]
      [] cmp(old[i][1], new_[j][1]) = "Equal" ->
            [push |-> old[i], i |-> i + 1, j |-> j + 1]

\* on equal keys only j advances
MergeArm_EqualKeepsBoth(old, new_, i, j) ==
    CASE cmp(old[i][1], new_[j][1]) = "Less" ->
            [push |-> old[i], i |-> i + 1, j |-> j]
      [] cmp(old[i][1], new_[j][1]) = "Greater" ->
            [push |-> new_[j], i |-> i, j |-> j + 1]
      [] cmp(old[i][1], new_[j][1]) = "Equal" ->
            [push |-> new_[j], i |-> i, j |-> j + 1]

\* one turn of the first loop of merge_sorted: the entry pushed and the
\* indices after it
MergeArm(old, new_, i, j) ==
    CASE cmp(old[i][1], new_[j][1]) = "Less" ->
            [push |-> old[i], i |-> i + 1, j |-> j]
      [] cmp(old[i][1], new_[j][1]) = "Greater" ->
            [push |-> new_[j], i |-> i, j |-> j + 1]
      [] cmp(old[i][1], new_[j][1]) = "Equal" ->
            [push |-> new_[j], i |-> i + 1, j |-> j + 1]

\* while i < old_data.len() && j < new_data.len()
RECURSIVE MergeBoth(_, _, _, _, _)
MergeBoth(old, new_, i, j, acc) ==
    IF i <= Len(old) /\ j <= Len(new_)
    THEN LET s == MergeArm(old, new_, i, j)
         IN MergeBoth(old, new_, s.i, s.j, Append(acc, s.push))
    ELSE [merged |-> acc, i |-> i, j |-> j]

\* the loop over the rest of old_data is missing
MergeRest_DropOld(old, new_, r) ==
    r.merged \o SubSeq(new_, r.j, Len(new_))

\* the two trailing loops: the rest of old_data, then the rest of new_data
MergeRest(old, new_, r) ==
    r.merged \o SubSeq(old, r.i, Len(old)) \o SubSeq(new_, r.j, Len(new_))

\* the tombstones are dropped from the merge
merge_sorted_PurgeTombstones(old, new_) ==
    SelectSeq(MergeRest(old, new_, MergeBoth(old, new_, 1, 1, <<>>)),
              LAMBDA e : e[2] # None)

\* the arguments are taken the other way round
merge_sorted_Swapped(old, new_) ==
    MergeRest(new_, old, MergeBoth(new_, old, 1, 1, <<>>))

merge_sorted(old, new_) == MergeRest(old, new_, MergeBoth(old, new_, 1, 1, <<>>))

\* self.levels[level].take().map(|l| l.data).unwrap_or_default()
ExistingData(lvls, level) ==
    IF lvls[level + 1] = None THEN <<>> ELSE lvls[level + 1][1].data

\* data.len() > self.level_capacity(level)
MustCascade_Strict(data, threshold, level) ==
    Len(data) > level_capacity(threshold, level)

\* data.len() >= self.level_capacity(level)
MustCascade(data, threshold, level) ==
    Len(data) >= level_capacity(threshold, level)

\* the merged data is not stored back into the slot it was taken from
RECURSIVE merge_into_level_DropStore(_, _, _, _)
merge_into_level_DropStore(lvls, threshold, level, data) ==
    IF level >= Len(lvls)
    THEN Append(lvls, Some(LSMLevel(data)))
    ELSE LET taken == [lvls EXCEPT ![level + 1] = None]
             both == merge_sorted(ExistingData(lvls, level), data)
         IN IF MustCascade(both, threshold, level)
            THEN merge_into_level_DropStore(taken, threshold, level + 1, both)
            ELSE taken

RECURSIVE merge_into_level(_, _, _, _)
merge_into_level(lvls, threshold, level, data) ==
    IF level >= Len(lvls)
    THEN Append(lvls, Some(LSMLevel(data)))
    ELSE LET taken == [lvls EXCEPT ![level + 1] = None]
             both == merge_sorted(ExistingData(lvls, level), data)
         IN IF MustCascade(both, threshold, level)
            THEN merge_into_level(taken, threshold, level + 1, both)
            ELSE [taken EXCEPT ![level + 1] = Some(LSMLevel(both))]

\* the memtable is cloned, not taken
flush_memtable_KeepMemtable(tree) ==
    [tree EXCEPT
        !.levels = merge_into_level(tree.levels, tree.memtable_flush_threshold,
                                    0, BTreeMapIter(tree.memtable))]

\* the merge starts at level 1
flush_memtable_FromLevelOne(tree) ==
    [tree EXCEPT
        !.memtable = BTreeMapNew,
        !.levels = merge_into_level(tree.levels, tree.memtable_flush_threshold,
                                    1, BTreeMapIter(tree.memtable))]

\* std::mem::take(&mut self.memtable), then merge_into_level(0, ..)
flush_memtable(tree) ==
    [tree EXCEPT
        !.memtable = BTreeMapNew,
        !.levels = merge_into_level(tree.levels, tree.memtable_flush_threshold,
                                    0, BTreeMapIter(tree.memtable))]

\* self.memtable.len() > self.memtable_flush_threshold
MustFlush_Strict(tree) == BTreeMapLen(tree.memtable) > tree.memtable_flush_threshold

\* self.memtable.len() >= self.memtable_flush_threshold
MustFlush(tree) == BTreeMapLen(tree.memtable) >= tree.memtable_flush_threshold

\* the threshold is tested before the upsert
insert_FlushBeforeUpsert(tree, key, value) ==
    LET t == IF MustFlush(tree) THEN flush_memtable(tree) ELSE tree
    IN [t EXCEPT !.memtable = BTreeMapInsert(t.memtable, key, value)]

insert(tree, key, value) ==
    LET t == [tree EXCEPT !.memtable = BTreeMapInsert(tree.memtable, key, value)]
    IN IF MustFlush(t) THEN flush_memtable(t) ELSE t

\* the key is removed from the memtable and no tombstone is written
delete_RemoveFromMemtable(tree, key) ==
    [tree EXCEPT
        !.memtable = [o \in DOMAIN tree.memtable \ {key} |-> tree.memtable[o]]]

delete(tree, key) == insert(tree, key, None)

\* slice::binary_search_by on data[lo..hi), Ok(index) as Some(index)
RECURSIVE binary_search(_, _, _, _)
binary_search(data, key, lo, hi) ==
    IF lo >= hi THEN None
    ELSE LET mid == lo + ((hi - lo) \div 2)
             c == cmp(data[mid][1], key)
         IN IF c = "Equal" THEN Some(mid)
            ELSE IF c = "Less" THEN binary_search(data, key, mid + 1, hi)
            ELSE binary_search(data, key, lo, mid)

\* a tombstone found in a level counts as no hit
LevelLookup_SkipTombstone(data, key) ==
    LET pos == binary_search(data, key, 1, Len(data) + 1)
    IN IF pos # None /\ data[pos[1]][2] # None THEN Some(data[pos[1]][2]) ELSE None

\* if let Ok(pos) = level.data.binary_search_by(..): the hit, Some(value of
\* the entry), or None
LevelLookup(data, key) ==
    LET pos == binary_search(data, key, 1, Len(data) + 1)
    IN IF pos # None THEN Some(data[pos[1]][2]) ELSE None

\* for level in &self.levels { ... }, then None
RECURSIVE get_levels(_, _, _)
get_levels(lvls, key, n) ==
    IF n > Len(lvls) THEN None
    ELSE IF lvls[n] = None THEN get_levels(lvls, key, n + 1)
    ELSE LET hit == LevelLookup(lvls[n][1].data, key)
         IN IF hit # None THEN hit[1]
            ELSE get_levels(lvls, key, n + 1)

Reverse(s) == [i \in 1..Len(s) |-> s[Len(s) + 1 - i]]

\* the levels are searched from the deepest to level 0
get_DeepestFirst(tree, key) ==
    IF key \in DOMAIN tree.memtable THEN tree.memtable[key]
    ELSE get_levels(Reverse(tree.levels), key, 1)

get(tree, key) ==
    IF key \in DOMAIN tree.memtable THEN tree.memtable[key]
    ELSE get_levels(tree.levels, key, 1)

\* ------------------------------------------------------ the state machine
Tree ==
    [memtable |-> memtable, levels |-> levels,
     memtable_flush_threshold |-> memtable_flush_threshold]

Get(key) == get(Tree, key)

MergeIdle == old_data = <<>> /\ new_data = <<>> /\ merged = None

Init ==
    /\ \E threshold \in 0..MaxThreshold :
         /\ memtable = new(threshold).memtable
         /\ levels = new(threshold).levels
         /\ memtable_flush_threshold = new(threshold).memtable_flush_threshold
    /\ writes = <<>>
    /\ MergeIdle

Becomes(t) ==
    /\ memtable' = t.memtable
    /\ levels' = t.levels
    /\ memtable_flush_threshold' = t.memtable_flush_threshold

Insert(key, value) ==
    /\ Len(writes) < MaxWrites
    /\ Becomes(insert(Tree, key, value))
    /\ writes' = Append(writes, <<key, value>>)
    /\ UNCHANGED <<old_data, new_data, merged>>

Delete(key) ==
    /\ Len(writes) < MaxWrites
    /\ Becomes(delete(Tree, key))
    /\ writes' = Append(writes, <<key, None>>)
    /\ UNCHANGED <<old_data, new_data, merged>>

\* the values call number Len(writes) + 1 may carry
CallValues == {None, Some(Len(writes) + 1)}

Next ==
    \/ \E key \in Keys, value \in CallValues : Insert(key, value)
    \/ \E key \in Keys : Delete(key)

Spec == Init /\ [][Next]_vars

\* --------------------------------------------- merge_sorted called directly
\* every sequence of entries with strictly increasing keys, each entry a
\* tombstone or the value v
SortedRuns(v) ==
    {BTreeMapIter(m) : m \in UNION {[S -> {None, Some(v)}] : S \in SUBSET Keys}}

InitMerge ==
    /\ memtable = new(1).memtable
    /\ levels = new(1).levels
    /\ memtable_flush_threshold = new(1).memtable_flush_threshold
    /\ writes = <<>>
    /\ old_data \in SortedRuns(1)
    /\ new_data \in SortedRuns(2)
    /\ merged = None

MergeSorted ==
    /\ merged = None
    /\ merged' = Some(merge_sorted(old_data, new_data))
    /\ UNCHANGED <<memtable, levels, memtable_flush_threshold, writes,
                   old_data, new_data>>

NextMerge == MergeSorted

SpecMerge == InitMerge /\ [][NextMerge]_vars

\* ------------------------------------------------- the history of the calls
\* the calls that wrote key k, by number
WritesTo(k) == {i \in 1..Len(writes) : writes[i][1] = k}

Max(S) == CHOOSE x \in S : \A y \in S : y <= x

\* what a plain last-write-wins map answers for k after the calls of `writes`
LastWriteWinsMap(k) ==
    IF WritesTo(k) = {} THEN None ELSE writes[Max(WritesTo(k))][2]

\* the entries level slot n (1-based) holds
LevelEntries(n) ==
    IF levels[n] = None THEN {}
    ELSE {levels[n][1].data[i] : i \in 1..Len(levels[n][1].data)}

LevelSlots == 1..Len(levels)

\* --------------------------------------------------------------- claims

\* C1: with a threshold of at least 1, after any sequence of insert and delete
\* calls, get answers for every key, written or not, what a last-write-wins
\* map answers: the value of the latest write if it carried one, no value if
\* the key was never written or its latest write was a tombstone.
LastWriteWins ==
    memtable_flush_threshold >= 1 =>
        \A k \in Keys : Get(k) = LastWriteWinsMap(k)

\* C1 witness: three level slots exist, a key has entries with different
\* values in two levels, and another key was never written.
LastWriteWinsWitness ==
    /\ memtable_flush_threshold >= 1
    /\ Len(levels) >= 3
    /\ \E k \in Keys, m, n \in LevelSlots :
          /\ m < n
          /\ \E e \in LevelEntries(m), f \in LevelEntries(n) :
                e[1] = k /\ f[1] = k /\ e[2] # f[2] /\ Get(k) = e[2]
    /\ \E k \in Keys : WritesTo(k) = {} /\ Get(k) = None

\* C2: read-your-write: right after insert(k, v) returns, get(k) is v,
\* whatever flushes and cascades this or earlier calls ran.
ReadYourWrite ==
    (writes # <<>> /\ writes[Len(writes)][2] # None) =>
        Get(writes[Len(writes)][1]) = writes[Len(writes)][2]

\* C2 witness: the insert just made flushed the memtable and cascaded through
\* levels 0 and 1 into a new level 2, where its entry now lies.
ReadYourWriteWitness ==
    /\ memtable_flush_threshold >= 1
    /\ writes # <<>>
    /\ writes[Len(writes)][2] # None
    /\ DOMAIN memtable = {}
    /\ Len(levels) = 3
    /\ levels[1] = None
    /\ levels[2] = None
    /\ writes[Len(writes)] \in LevelEntries(3)

\* C3: overwrite freshness: when k was inserted with v1 and later with v2,
\* and v2 is the latest write of k, get(k) is v2, wherever v1 lies.
OverwriteFreshness ==
    \A k \in Keys : \A i, j \in WritesTo(k) :
        (i < j /\ j = Max(WritesTo(k)) /\ writes[i][2] # None /\ writes[j][2] # None)
            => Get(k) = writes[j][2]

\* C3 witness: v1 had reached a level before v2 was written and is still
\* stored there, and get answers v2.
OverwriteFreshnessWitness ==
    \E k \in Keys : \E i, j \in WritesTo(k) :
        /\ i < j /\ j = Max(WritesTo(k))
        /\ writes[i][2] # None /\ writes[j][2] # None
        /\ \E n \in LevelSlots : writes[i] \in LevelEntries(n)
        /\ Get(k) = writes[j][2]

\* C4: delete visibility: after delete(k) that follows an insert of k, get(k)
\* is no value for as long as k is not inserted again.
DeleteVisibility ==
    \A k \in Keys : \A i, j \in WritesTo(k) :
        (/\ i < j
         /\ writes[i][2] # None
         /\ \A m \in WritesTo(k) : m >= j => writes[m][2] = None)
            => Get(k) = None

\* C4 witness: the tombstone of k has been flushed and cascaded into a level
\* below level 0, and a deeper level still holds the older live value of k.
DeleteVisibilityWitness ==
    \E k \in Keys : \E i, j \in WritesTo(k) :
        /\ i < j /\ j = Max(WritesTo(k))
        /\ writes[i][2] # None /\ writes[j][2] = None
        /\ k \notin DOMAIN memtable
        /\ \E m, n \in LevelSlots :
              /\ 1 < m /\ m < n
              /\ writes[j] \in LevelEntries(m)
              /\ writes[i] \in LevelEntries(n)
        /\ Get(k) = None

\* C5, as stated: with a threshold of at least 1, after every completed write
\* every populated level i holds strictly fewer than threshold * 2^i entries,
\* a slot just appended as the new deepest slot included.
LevelBelowCapacity ==
    memtable_flush_threshold >= 1 =>
        \A n \in LevelSlots :
            levels[n] # None =>
                Len(levels[n][1].data) < memtable_flush_threshold * (2 ^ (n - 1))

\* C5, amended: with a threshold of at least 1, after every completed write
\* every populated level i holds at most threshold * 2^i entries, and
\* strictly fewer unless it is the deepest slot.
LevelCapacityExceptDeepest ==
    memtable_flush_threshold >= 1 =>
        \A n \in LevelSlots :
            levels[n] # None =>
                /\ Len(levels[n][1].data) <= memtable_flush_threshold * (2 ^ (n - 1))
                /\ n < Len(levels) =>
                     Len(levels[n][1].data) < memtable_flush_threshold * (2 ^ (n - 1))

\* C5 witness: a cascade appended a deepest slot below level 0 that holds
\* exactly its capacity.
LevelCapacityWitness ==
    /\ memtable_flush_threshold >= 1
    /\ Len(levels) >= 2
    /\ levels[Len(levels)] # None
    /\ Len(levels[Len(levels)][1].data)
         = memtable_flush_threshold * (2 ^ (Len(levels) - 1))

\* C6: with a threshold of at least 1, after every completed insert or delete
\* the memtable holds strictly fewer entries than the threshold.
MemtableBelowThreshold ==
    memtable_flush_threshold >= 1 =>
        BTreeMapLen(memtable) < memtable_flush_threshold

\* C6 witness: with threshold 2, the write just made brought the memtable to
\* two entries and left it empty, its entries in a level.
MemtableBelowThresholdWitness ==
    /\ memtable_flush_threshold = 2
    /\ Len(writes) >= 2
    /\ writes[Len(writes)][1] # writes[Len(writes) - 1][1]
    /\ BTreeMapLen(memtable) = 0
    /\ \E n \in LevelSlots :
          {writes[Len(writes)], writes[Len(writes) - 1]} \subseteq LevelEntries(n)

\* the calls so far are exactly threshold writes of pairwise distinct keys
WroteThresholdDistinctKeys ==
    /\ memtable_flush_threshold >= 1
    /\ Len(writes) = memtable_flush_threshold
    /\ Cardinality({writes[i][1] : i \in 1..Len(writes)}) = Len(writes)

\* C7: on a fresh tree with threshold T >= 1, inserting exactly T distinct
\* keys leaves the memtable empty and exactly one level slot, level 0,
\* holding exactly those T entries, each still returned by get.
FlushThreshold ==
    WroteThresholdDistinctKeys =>
        /\ DOMAIN memtable = {}
        /\ Len(levels) = 1
        /\ levels[1] # None
        /\ Len(levels[1][1].data) = memtable_flush_threshold
        /\ LevelEntries(1) = {writes[i] : i \in 1..Len(writes)}
        /\ \A i \in 1..Len(writes) : Get(writes[i][1]) = writes[i][2]

\* C7 witness: two distinct keys were inserted with present values into a
\* fresh tree of threshold 2, and level 0 is populated.
FlushThresholdWitness ==
    /\ WroteThresholdDistinctKeys
    /\ memtable_flush_threshold = 2
    /\ \A i \in 1..Len(writes) : writes[i][2] # None
    /\ Len(levels) = 1
    /\ levels[1] # None

\* the memtable of the step's call right after its upsert
Upserted ==
    BTreeMapInsert(memtable, writes'[Len(writes')][1], writes'[Len(writes')][2])

\* the entries the step's flush hands to the levels it visits, from level L
\* on, level L receiving inc: a level without a slot, or one whose merge
\* stays below threshold * 2^L, is the last one visited
RECURSIVE Incoming(_, _)
Incoming(L, inc) ==
    IF L >= Len(levels) THEN <<inc>>
    ELSE LET both == merge_sorted(ExistingData(levels, L), inc)
         IN IF Len(both) >= memtable_flush_threshold * (2 ^ L)
            THEN <<inc>> \o Incoming(L + 1, both)
            ELSE <<inc>>

\* what the claim says of a visited level L that has a slot; visits[n + 1]
\* are the entries handed to level n
CascadeAt(L, visits) ==
    \A both \in {merge_sorted(ExistingData(levels, L), visits[L + 1])} :
       IF Len(both) >= memtable_flush_threshold * (2 ^ L)
       THEN /\ levels'[L + 1] = None
            /\ Len(visits) >= L + 2
            /\ visits[L + 2] = both
            /\ L + 1 = Len(levels) =>
                 /\ Len(levels') = Len(levels) + 1
                 /\ levels'[L + 2] = Some(LSMLevel(both))
       ELSE /\ levels'[L + 1] = Some(LSMLevel(both))
            /\ Len(visits) = L + 1
            /\ Len(levels') = Len(levels)
            /\ \A n \in (L + 2)..Len(levels) : levels'[n] = levels[n]

\* the claim of every level the step's flush visits that has a slot
CascadeAtVisited ==
    \A visits \in {Incoming(0, BTreeMapIter(Upserted))} :
        \A L \in 0..(Len(visits) - 1) : L < Len(levels) => CascadeAt(L, visits)

\* four distinct keys were inserted, with present values, into a fresh tree
\* of threshold 2
InsertedABCD ==
    /\ memtable_flush_threshold = 2
    /\ Len(writes) = 4
    /\ Cardinality({writes[i][1] : i \in 1..Len(writes)}) = 4
    /\ \A i \in 1..Len(writes) : writes[i][2] # None

StrictlySorted(data) ==
    \A i \in 1..(Len(data) - 1) : cmp(data[i][1], data[i + 1][1]) = "Less"

EntriesOf(data) == {data[i] : i \in 1..Len(data)}

KeysOf(data) == {data[i][1] : i \in 1..Len(data)}

\* C9: merge correctness: for old and new each sorted by strictly increasing
\* key, merge_sorted(old, new) is sorted by strictly increasing key, its keys
\* are exactly the keys of old and of new, every key of new carries new's
\* value or tombstone, and every key of old alone carries old's.
MergeCorrect ==
    (merged # None /\ StrictlySorted(old_data) /\ StrictlySorted(new_data)) =>
        /\ StrictlySorted(merged[1])
        /\ KeysOf(merged[1]) = KeysOf(old_data) \cup KeysOf(new_data)
        /\ EntriesOf(new_data) \subseteq EntriesOf(merged[1])
        /\ \A e \in EntriesOf(old_data) :
              e[1] \notin KeysOf(new_data) => e \in EntriesOf(merged[1])

\* C9 witness: merge_sorted has returned for inputs that share a key with
\* different values and each hold a key the other lacks, and the result
\* holds new's entry for the shared key.
MergeCorrectWitness ==
    /\ merged # None
    /\ \E e \in EntriesOf(old_data), f \in EntriesOf(new_data) :
          e[1] = f[1] /\ e[2] # f[2] /\ f \in EntriesOf(merged[1])
    /\ KeysOf(old_data) \ KeysOf(new_data) # {}
    /\ KeysOf(new_data) \ KeysOf(old_data) # {}
    /\ Len(merged[1]) < Len(old_data) + Len(new_data)

\* the tree a threshold of 1 gives after the first n calls of `writes`
RECURSIVE ThresholdOneAfter(_)
ThresholdOneAfter(n) ==
    IF n = 0 THEN new(1)
    ELSE insert(ThresholdOneAfter(n - 1), writes[n][1], writes[n][2])

\* C10: a tree constructed with threshold 0 (construction does not reject it)
\* is treated as one of threshold 1: after any sequence of writes its
\* memtable and level slots are those of a tree constructed with threshold 1.
ZeroThresholdIsThresholdOne ==
    memtable_flush_threshold = 0 =>
        /\ memtable = ThresholdOneAfter(Len(writes)).memtable
        /\ levels = ThresholdOneAfter(Len(writes)).levels

\* the places that hold an entry for k: 0 is the memtable, n >= 1 level slot n
PlacesOf(k) ==
    (IF k \in DOMAIN memtable THEN {0} ELSE {})
        \cup {n \in LevelSlots : \E e \in LevelEntries(n) : e[1] = k}

\* the entry for k that place p holds
EntryAt(p, k) ==
    IF p = 0 THEN <<k, memtable[k]>>
    ELSE CHOOSE e \in LevelEntries(p) : e[1] = k

Min(S) == CHOOSE x \in S : \A y \in S : x <= y

\* C11: tombstones are never purged: once k was written, an entry for k
\* exists in the memtable or in a level in every later state; and while the
\* latest write of k is a delete, the newest stored entry for k is a
\* tombstone, also in the deepest level with no older entry beneath it.
TombstonesKept ==
    \A k \in Keys :
        WritesTo(k) # {} =>
            /\ PlacesOf(k) # {}
            /\ LastWriteWinsMap(k) = None =>
                 EntryAt(Min(PlacesOf(k)), k) = <<k, None>>

\* C11 witness: k was inserted and then deleted, and the only entry left for
\* k is its tombstone, in the deepest level slot, below level 0.
TombstonesKeptWitness ==
    \E k \in Keys : \E i, j \in WritesTo(k) :
        /\ i < j /\ j = Max(WritesTo(k))
        /\ writes[i][2] # None /\ writes[j][2] = None
        /\ Len(levels) >= 2
        /\ PlacesOf(k) = {Len(levels)}
        /\ EntryAt(Len(levels), k) = <<k, None>>

\* C12: level ordering: every populated level holds its entries in strictly
\* increasing key order, no key twice, so that the binary search of get
\* finds every entry of the level.
LevelsSorted ==
    \A n \in LevelSlots :
        levels[n] # None =>
            /\ StrictlySorted(levels[n][1].data)
            /\ \A e \in LevelEntries(n) :
                  LevelLookup(levels[n][1].data, e[1]) = Some(e[2])

\* C12 witness: a level below level 0 holds at least three entries, two of
\* which were written in descending key order.
LevelsSortedWitness ==
    \E n \in LevelSlots :
        /\ n >= 2
        /\ levels[n] # None
        /\ Len(levels[n][1].data) >= 3
        /\ \E i, j \in 1..Len(writes) :
              /\ i < j
              /\ writes[i][1] > writes[j][1]
              /\ {writes[i], writes[j]} \subseteq LevelEntries(n)

\* C13: recency across places: when k has entries in two places, the one in
\* the shallower place (memtable before level 0, level i before level j for
\* i < j) was written later than the one in the deeper place; hence the
\* entry in the shallowest place is the latest write of k.
ShallowerIsNewer ==
    \A k \in Keys :
        /\ \A p, q \in PlacesOf(k) :
              p < q =>
                \E i, j \in WritesTo(k) :
                    /\ j < i
                    /\ writes[i] = EntryAt(p, k)
                    /\ writes[j] = EntryAt(q, k)
        /\ PlacesOf(k) # {} =>
              EntryAt(Min(PlacesOf(k)), k) = writes[Max(WritesTo(k))]

\* C13 witness: k has a live entry in the memtable and an older live entry
\* in a level.
ShallowerIsNewerWitness ==
    \E k \in Keys : \E q \in LevelSlots :
        /\ {0, q} \subseteq PlacesOf(k)
        /\ memtable[k] # None
        /\ EntryAt(q, k)[2] # None
        /\ EntryAt(q, k)[2][1] < memtable[k][1]

DeleteIsInsertTombstone ==
    /\ [][\A w \in {writes'[Len(writes')]} :
            (Len(writes') = Len(writes) + 1 /\ w[2] = None) =>
                \A t \in {delete(Tree, w[1])} :
                    /\ t = insert(Tree, w[1], None)
                    /\ memtable' = t.memtable
                    /\ levels' = t.levels
         ]_vars
    /\ [](\A k \in Keys :
            (writes # <<>> /\ writes[Len(writes)] = <<k, None>>
                /\ WritesTo(k) = {Len(writes)})
              => /\ PlacesOf(k) # {}
                 /\ \A p \in PlacesOf(k) : EntryAt(p, k) = <<k, None>>)

\* C15 witness: the delete of a key never written before brought the
\* memtable to the threshold, flushed and cascaded, and its tombstone lies in
\* a newly appended level below level 0.
DeleteIsInsertTombstoneWitness ==
    \E k \in Keys :
        /\ memtable_flush_threshold >= 1
        /\ Len(writes) >= 2
        /\ writes[Len(writes)] = <<k, None>>
        /\ WritesTo(k) = {Len(writes)}
        /\ DOMAIN memtable = {}
        /\ Len(levels) >= 2
        /\ PlacesOf(k) = {Len(levels)}
        /\ EntryAt(Len(levels), k) = <<k, None>>

\* the slot the step appended holds inc merged into the levels n, n + 1, ...
\* up to the deepest, one after the other
RECURSIVE AppendedFrom(_, _)
AppendedFrom(n, inc) ==
    IF n = Len(levels) THEN levels'[n + 1] = Some(LSMLevel(inc))
    ELSE \A both \in {merge_sorted(ExistingData(levels, n), inc)} :
            AppendedFrom(n + 1, both)

\* the levels 0 .. L - 1 were visited and emptied, level L was the last one
\* visited, the deeper ones were not touched; when L had no slot, one slot
\* was appended, holding the incoming data as it came
StoppedAt(L) ==
    /\ \A n \in 1..L : levels'[n] = None
    /\ \A n \in (L + 2)..Len(levels) : levels'[n] = levels[n]
    /\ IF L = Len(levels)
       THEN /\ Len(levels') = Len(levels) + 1
            /\ \A up \in {BTreeMapIter(Upserted)} : AppendedFrom(0, up)
       ELSE /\ Len(levels') = Len(levels)
            /\ levels'[L + 1] # None

\* C16: cascade termination: the flush of a write visits the levels
\* 0, 1, 2, ... in turn and stops at the latest at the index that is
\* the number of slots before the flush, where it appends one slot holding
\* exactly the incoming data; a write adds at most one slot and removes none.
CascadeTerminates ==
    [][Len(writes') = Len(writes) + 1 =>
        /\ Len(levels') \in {Len(levels), Len(levels) + 1}
        /\ BTreeMapLen(Upserted) >= memtable_flush_threshold =>
             \E L \in 0..Len(levels) : StoppedAt(L)
      ]_vars

\* C16 witness: the third flush of a tree of threshold 1 went through the
\* slots of levels 0 and 1, left both empty and appended level 2.
CascadeTerminatesWitness ==
    /\ memtable_flush_threshold = 1
    /\ Len(writes) = 3
    /\ Len(levels) = 3
    /\ levels[1] = None
    /\ levels[2] = None
    /\ levels[3] # None
    /\ Len(levels[3][1].data) >= 2

RECURSIVE KeysPending(_)
KeysPending(n) ==
    IF n = 0 THEN {}
    ELSE LET ks == KeysPending(n - 1) \cup {writes[n][1]}
         IN IF Cardinality(ks) >= memtable_flush_threshold THEN {} ELSE ks

\* the number of entries of the memtable of call i right after its upsert
UpsertedLen(i) == Cardinality(KeysPending(i - 1) \cup {writes[i][1]})

\* the calls that ran a flush
FlushCalls ==
    {i \in 1..Len(writes) : UpsertedLen(i) >= memtable_flush_threshold}

DeepestPopulated ==
    levels # <<>> => levels[Len(levels)] # None

\* C19 witness: the slot of level 0 is empty, the deepest slot is populated,
\* and the last flush merged into the deepest slot without appending one.
DeepestPopulatedWitness ==
    /\ memtable_flush_threshold >= 1
    /\ Len(levels) >= 2
    /\ levels[1] = None
    /\ levels[Len(levels)] # None
    /\ writes # <<>>
    /\ writes[Len(writes)] \in LevelEntries(Len(levels))
    /\ Cardinality(FlushCalls) > Len(levels)

====
